---- MODULE Spec2Model ----
(***************************************************************************)
(* The MongoDB repository of the user service (package mongodb): the three *)
(* collections customers, addresses and cards, and the handlers CreateUser,*)
(* GetUser, GetUserByName, GetUserAttributes, GetCard, GetAddress,         *)
(* CreateCard, CreateAddress and Delete, one action per storage call so    *)
(* that the calls of concurrently issued handlers interleave.              *)
(***************************************************************************)
EXTENDS Naturals, Sequences, FiniteSets, TLC

(***************************************************************************)
(* Bounds of the model.                                                    *)
(***************************************************************************)
\* operations issued in one run
MaxOps == 2
\* storage calls that fail in one run
MaxFaults == 2
\* embedded addresses of a submitted user
MaxAddrs == 2
\* embedded cards of a submitted user
MaxCards == 1
\* characters of an identifier's hex form (24 in the driver)
HexLen == 2
\* failed attempts of db.Init() before the database answers
MaxInitFails == 2

Procs == {1, 2}
Usernames == {"u1", "u2"}
Passwords == {"p1", "p2"}
Streets == {"s1", "s2"}
LongNums == {"n1"}
HexDigits == 0 .. 15
\* the code of a character outside the hex alphabet
NonHex == 15 + 1

(***************************************************************************)
(* Identifier codec: primitive.ObjectID <-> its hex string.  An ObjectID   *)
(* is a natural number, its string form a sequence of HexLen hex digits.   *)
(***************************************************************************)
RECURSIVE Pow16(_)
Pow16(n) == IF n = 0 THEN 1 ELSE 16 * Pow16(n - 1)

Hex(id) == [i \in 1 .. HexLen |-> (id \div Pow16(HexLen - i)) % 16]

\* mutant: only the length is checked
IsValidLength(s) == Len(s) = HexLen

IsValidObjectID(s) == Len(s) = HexLen /\ \A i \in 1 .. Len(s) : s[i] \in HexDigits

RECURSIVE HexValue(_)
HexValue(s) == IF s = << >> THEN 0 ELSE 16 * HexValue(SubSeq(s, 1, Len(s) - 1)) + s[Len(s)]

ObjectIDFromHex(s) == HexValue(s)

EmptyStr == << >>
\* malformed identifier strings: too short, and of the right length with a
\* character outside the alphabet
Malformed == {SubSeq(Hex(1), 1, HexLen - 1), [i \in 1 .. HexLen |-> NonHex]}


(***************************************************************************)
(* Sequence helpers.                                                       *)
(***************************************************************************)
Range(s) == {s[i] : i \in 1 .. Len(s)}

SeqsUpTo(S, n) == UNION {[1 .. k -> S] : k \in 0 .. n}

\* every enumeration of the finite set S without repetition
Orderings(S) == {s \in [1 .. Cardinality(S) -> S] : \A i, j \in 1 .. Len(s) : s[i] = s[j] => i = j}

\* the multiset of the elements of s
BagOf(s) == [x \in Range(s) |-> Cardinality({i \in 1 .. Len(s) : s[i] = x})]

\* $pull: every occurrence of id removed
Pull(s, id) == SelectSeq(s, LAMBDA x : x # id)

\* $addToSet: appended unless present
AddToSet(s, id) == IF id \in Range(s) THEN s ELSE Append(s, id)

(***************************************************************************)
(* Domain entities and storage records.                                    *)
(***************************************************************************)
NilErr == "nil"
ErrInvalidHexID == "ErrInvalidHexID"
ErrNoDocuments == "ErrNoDocuments"
ErrDuplicateKey == "DuplicateKey"
ErrStorage == "StorageError"
ErrAttributes == "AttributeErrors"

\* users.Address{ID: id.Hex()} / users.Card{ID: id.Hex()}: only the id set
Placeholder(id) == [ID |-> Hex(id), val |-> ""]

\* users.New(): the empty user
NewUser == [UserID |-> EmptyStr, Username |-> "", Password |-> "", Addresses |-> << >>, Cards |-> << >>]

\* mutant: the two reference lists stored under each other's key
MongoUserDocSwapped(user, aids, cids) ==
    [username |-> user.Username, password |-> user.Password, addresses |-> cids, cards |-> aids]

\* the customer document of a MongoUser: the scalar fields of the inlined
\* user, and the reference lists under "addresses" and "cards"
MongoUserDoc(user, aids, cids) ==
    [username |-> user.Username, password |-> user.Password, addresses |-> aids, cards |-> cids]

\* mutant: each placeholder put in front of the list instead of appended
AddUserIDsPrepend(id, doc) ==
    [UserID |-> Hex(id), Username |-> doc.username, Password |-> doc.password,
     Addresses |-> [i \in 1 .. Len(doc.addresses) |-> Placeholder(doc.addresses[Len(doc.addresses) + 1 - i])],
     Cards |-> [i \in 1 .. Len(doc.cards) |-> Placeholder(doc.cards[Len(doc.cards) + 1 - i])]]

\* MongoUser.AddUserIDs on a decoded customer document
AddUserIDs(id, doc) ==
    [UserID |-> Hex(id), Username |-> doc.username, Password |-> doc.password,
     Addresses |-> [i \in 1 .. Len(doc.addresses) |-> Placeholder(doc.addresses[i])],
     Cards |-> [i \in 1 .. Len(doc.cards) |-> Placeholder(doc.cards[i])]]

\* MongoAddress.AddID / MongoCard.AddID on a decoded record
AddID(id, val) == [ID |-> Hex(id), val |-> val]
(***************************************************************************)
(* Storage calls on one collection (a function from ObjectID to document). *)
(***************************************************************************)
\* mutant: SetUpsert(false), a filter that matches nothing writes nothing
ReplaceOneNoUpsert(coll, id, doc) ==
    [x \in DOMAIN coll |-> IF x = id THEN doc ELSE coll[x]]

\* ReplaceOne(filter _id = id, doc) with SetUpsert(true)
ReplaceOne(coll, id, doc) == [x \in DOMAIN coll \cup {id} |-> IF x = id THEN doc ELSE coll[x]]

\* mutant: DeleteOne in place of DeleteMany, a single matching document removed
DeleteManyOnlyOne(coll, ids) ==
    IF DOMAIN coll \cap ids = {} THEN coll
    ELSE LET first == CHOOSE x \in DOMAIN coll \cap ids : \A y \in DOMAIN coll \cap ids : x <= y
         IN [x \in DOMAIN coll \ {first} |-> coll[x]]

\* DeleteMany(_id $in ids)
DeleteMany(coll, ids) == [x \in DOMAIN coll \ ids |-> coll[x]]

\* DeleteOne(_id = id)
DeleteOne(coll, id) == [x \in DOMAIN coll \ {id} |-> coll[x]]

\* mutant: Find with the empty filter, every document matches
FindAll(coll, ids) == DOMAIN coll

\* Find(_id $in ids): the ids of the matching documents
FindIn(coll, ids) == DOMAIN coll \cap ids

\* mutant: UpdateMany with the empty filter, the id added to every customer
UpdateManyAddToSet(coll, uid, attr, id) ==
    [x \in DOMAIN coll |-> [coll[x] EXCEPT ![attr] = AddToSet(@, id)]]

\* mutant: the update filter matches no document
UpdateOneUnmatched(coll, uid, attr, id) == coll

\* UpdateOne(_id = uid, $addToSet {attr: id}); no document matched: no change
UpdateOneAddToSet(coll, uid, attr, id) ==
    IF uid \in DOMAIN coll THEN [coll EXCEPT ![uid][attr] = AddToSet(@, id)] ELSE coll

\* mutant: the $pull is not issued
PullFromNone(coll, attr, id) == coll

\* mutant: UpdateOne in place of UpdateMany, the reference pulled from the
\* first customer document only
UpdateOnePull(coll, attr, id) ==
    IF DOMAIN coll = {} THEN coll
    ELSE LET first == CHOOSE x \in DOMAIN coll : \A y \in DOMAIN coll : x <= y
         IN [coll EXCEPT ![first][attr] = Pull(@, id)]

\* UpdateMany({}, $pull {attr: id}) over every customer document
UpdateManyPull(coll, attr, id) == [x \in DOMAIN coll |-> [coll[x] EXCEPT ![attr] = Pull(@, id)]]

\* mutant: the index is created without SetUnique(true)
IndexNotUnique(coll, id, doc) == FALSE

\* mutant: the unique index is declared on another key
IndexOnOtherKey(coll, id, doc) == \E x \in DOMAIN coll : x # id /\ coll[x].password = doc.password

\* the unique index on customers.username: writing doc under id is refused
\* when another document holds the same username
DuplicateKey(coll, id, doc) == \E x \in DOMAIN coll : x # id /\ coll[x].username = doc.username

(***************************************************************************)
(* State.                                                                  *)
(***************************************************************************)
VARIABLES
    db,           \* the database: db.customers, db.addresses, db.cards
    nextId,       \* the next value of primitive.NewObjectID()
    opsLeft,      \* operations that may still be issued
    faultsLeft,   \* storage calls that may still fail
    op,           \* op[p]: the handler process p runs
    pc,           \* pc[p]: its position
    arg,          \* arg[p]: the arguments as the caller passed them
    u,            \* u[p]: the caller's entity behind the pointer argument
    loc,          \* loc[p]: the handler's local variables
    ret,          \* ret[p]: what the handler returned
    pre,          \* pre[p]: the database and the fault budget when the handler started
    lim,          \* the longest embedded lists callers submit in this run
    calls,        \* calls[p]: storage calls the handler has issued
    createFailed, \* some CreateUser had a storage call fail
    deleteFault,  \* some Delete had a storage call fail
    main          \* the startup of the process: where main() is, dbconn, and
                  \* the attempts of db.Init() so far

vars == <<db, nextId, opsLeft, faultsLeft, op, pc, arg, u, loc, ret, pre, lim, calls, createFailed, deleteFault, main>>

None == [none |-> TRUE]
EmptyColl == [x \in {} |-> None]
EmptyDb == [customers |-> EmptyColl, addresses |-> EmptyColl, cards |-> EmptyColl]

Idle == /\ op = [p \in Procs |-> "none"]
        /\ pc = [p \in Procs |-> "idle"]
        /\ arg = [p \in Procs |-> None]
        /\ u = [p \in Procs |-> None]
        /\ loc = [p \in Procs |-> None]
        /\ ret = [p \in Procs |-> None]
        /\ pre = [p \in Procs |-> None]
        /\ calls = [p \in Procs |-> 0]

\* main() once the HTTP server is started: one attempt of db.Init() made,
\* which succeeded
Serving == [pc |-> "serving", dbconn |-> TRUE, attempts |-> 1, failed |-> 0,
            succeeded |-> TRUE, last |-> NilErr]

\* the database is empty, the username index exists (Init has returned)
Init == /\ db = EmptyDb
        /\ main = Serving
        /\ nextId = 1
        /\ opsLeft = MaxOps
        /\ faultsLeft = MaxFaults
        /\ lim = [addrs |-> MaxAddrs, cards |-> MaxCards]
        /\ createFailed = FALSE
        /\ deleteFault = FALSE
        /\ Idle

\* whether a storage call succeeds
Outcomes == IF faultsLeft > 0 THEN {TRUE, FALSE} ELSE {TRUE}

Charge(ok) == faultsLeft' = IF ok THEN faultsLeft ELSE faultsLeft - 1

\* process p starts handler name on argument a, the caller's entity being e,
\* and issues n storage calls in its first step
Free(p) == pc[p] = "idle" /\ opsLeft > 0

Begin(p, name, a, e, l, label, n) ==
    /\ opsLeft' = opsLeft - 1
    /\ op' = [op EXCEPT ![p] = name]
    /\ arg' = [arg EXCEPT ![p] = a]
    /\ u' = [u EXCEPT ![p] = e]
    /\ loc' = [loc EXCEPT ![p] = l]
    /\ pre' = [pre EXCEPT ![p] = [db |-> db, faults |-> faultsLeft]]
    /\ UNCHANGED <<lim, main>>
    /\ calls' = [calls EXCEPT ![p] = n]
    /\ pc' = [pc EXCEPT ![p] = label]

\* the handler returns e
Finish(p, e) ==
    /\ ret' = [ret EXCEPT ![p] = e]
    /\ pc' = [pc EXCEPT ![p] = "done"]
    /\ UNCHANGED <<lim, main>>

Goto(p, label) == pc' = [pc EXCEPT ![p] = label] /\ UNCHANGED <<lim, main>>

Issue(p) == calls' = [calls EXCEPT ![p] = @ + 1]

\* identifier strings a caller passes: those of the ids handed out so far, of
\* one not handed out yet, and the malformed ones
IdStrings == {Hex(i) : i \in 1 .. nextId} \cup Malformed \cup {EmptyStr}

\* the embedded lists of a submitted user, no entry with an id yet
AddressLists == SeqsUpTo([ID : {EmptyStr}, val : Streets], lim.addrs)
CardLists == SeqsUpTo([ID : {EmptyStr}, val : LongNums], lim.cards)
(***************************************************************************)
(* CreateUser.                                                             *)
(***************************************************************************)
\* where CreateUser goes once createCards has returned
AfterCards(user) == IF Len(user.Addresses) > 0 THEN "createAddresses" ELSE "upsert"

\* mu := New(); mu.User = *u; mu.ID = primitive.NewObjectID()
StartCreateUser(p) ==
    /\ Free(p)
    /\ \E name \in Usernames, pw \in Passwords, as \in AddressLists, cs \in CardLists :
        LET user == [UserID |-> EmptyStr, Username |-> name, Password |-> pw,
                     Addresses |-> as, Cards |-> cs]
        IN /\ Begin(p, "CreateUser", user, user,
                    [id |-> nextId, aids |-> << >>, cids |-> << >>, carderr |-> NilErr,
                     addrerr |-> NilErr, err |-> NilErr, cleaned |-> {}],
                    IF Len(cs) > 0 THEN "createCards" ELSE AfterCards(user), 0)
           /\ nextId' = nextId + 1
           /\ UNCHANGED <<db, faultsLeft, ret, createFailed, deleteFault>>

\* one round of the loop of createCards: a card written under a fresh id, the
\* id appended to ids and copied into the caller's slice element; the first
\* failed write ends the loop
CreateCardsWrite(p) ==
    /\ pc[p] = "createCards"
    /\ \E ok \in Outcomes :
        LET k == Len(loc[p].cids) + 1
            id == nextId
        IN /\ Charge(ok)
           /\ nextId' = nextId + 1
           /\ Issue(p)
           /\ IF ok
              THEN /\ db' = [db EXCEPT !.cards = ReplaceOne(@, id, u[p].Cards[k].val)]
                   /\ loc' = [loc EXCEPT ![p].cids = Append(@, id)]
                   /\ u' = [u EXCEPT ![p].Cards[k].ID = Hex(id)]
                   /\ Goto(p, IF k < Len(u[p].Cards) THEN "createCards" ELSE AfterCards(u[p]))
                   /\ UNCHANGED createFailed
              ELSE /\ loc' = [loc EXCEPT ![p].carderr = ErrStorage]
                   /\ Goto(p, AfterCards(u[p]))
                   /\ createFailed' = TRUE
                   /\ UNCHANGED <<db, u>>
    /\ UNCHANGED <<opsLeft, op, arg, ret, pre, deleteFault>>

\* one round of the loop of createAddresses
CreateAddressesWrite(p) ==
    /\ pc[p] = "createAddresses"
    /\ \E ok \in Outcomes :
        LET k == Len(loc[p].aids) + 1
            id == nextId
        IN /\ Charge(ok)
           /\ nextId' = nextId + 1
           /\ Issue(p)
           /\ IF ok
              THEN /\ db' = [db EXCEPT !.addresses = ReplaceOne(@, id, u[p].Addresses[k].val)]
                   /\ loc' = [loc EXCEPT ![p].aids = Append(@, id)]
                   /\ u' = [u EXCEPT ![p].Addresses[k].ID = Hex(id)]
                   /\ Goto(p, IF k < Len(u[p].Addresses) THEN "createAddresses" ELSE "upsert")
                   /\ UNCHANGED createFailed
              ELSE /\ loc' = [loc EXCEPT ![p].addrerr = ErrStorage]
                   /\ Goto(p, "upsert")
                   /\ createFailed' = TRUE
                   /\ UNCHANGED <<db, u>>
    /\ UNCHANGED <<opsLeft, op, arg, ret, pre, deleteFault>>

\* what CreateUser hands back once the customer document is written: with an
\* attribute error the caller's User is left as it stands (only the ids that
\* createCards and createAddresses wrote through the shared slices are in it)
CreateUserResult(user, l) ==
    IF l.carderr # NilErr \/ l.addrerr # NilErr
    THEN [err |-> ErrAttributes, user |-> user]
    ELSE [err |-> NilErr, user |-> [user EXCEPT !.UserID = Hex(l.id)]]

\* coll.ReplaceOne(_id = mu.ID, mu, upsert) on customers and what follows it
UpsertCustomer(p) ==
    /\ pc[p] = "upsert"
    /\ \E ok \in Outcomes :
        LET doc == MongoUserDoc(u[p], loc[p].aids, loc[p].cids)
            err == IF ~ok THEN ErrStorage
                   ELSE IF DuplicateKey(db.customers, loc[p].id, doc) THEN ErrDuplicateKey
                   ELSE NilErr
            res == CreateUserResult(u[p], loc[p])
        IN /\ Charge(ok)
           /\ Issue(p)
           /\ IF err # NilErr
              THEN /\ loc' = [loc EXCEPT ![p].err = err]
                   /\ Goto(p, "cleanAddresses")
                   /\ createFailed' = TRUE
                   /\ UNCHANGED <<db, u, ret>>
              ELSE /\ db' = [db EXCEPT !.customers = ReplaceOne(@, loc[p].id, doc)]
                   /\ u' = [u EXCEPT ![p] = res.user]
                   /\ Finish(p, [err |-> res.err])
                   /\ UNCHANGED <<loc, createFailed>>
    /\ UNCHANGED <<nextId, opsLeft, op, arg, pre, deleteFault>>

\* cleanAttributes, first call: DeleteMany on addresses, its error dropped
CleanAddresses(p) ==
    /\ pc[p] = "cleanAddresses"
    /\ \E ok \in Outcomes :
        /\ Charge(ok)
        /\ Issue(p)
        /\ db' = IF ok THEN [db EXCEPT !.addresses = DeleteMany(@, Range(loc[p].aids))] ELSE db
        /\ loc' = [loc EXCEPT ![p].cleaned = IF ok THEN @ \cup {"addresses"} ELSE @]
    /\ Goto(p, "cleanCards")
    /\ UNCHANGED <<nextId, opsLeft, op, arg, u, ret, pre, createFailed, deleteFault>>

\* cleanAttributes, second call: DeleteMany on cards, its error dropped; then
\* CreateUser returns the error of the upsert
CleanCards(p) ==
    /\ pc[p] = "cleanCards"
    /\ \E ok \in Outcomes :
        /\ Charge(ok)
        /\ Issue(p)
        /\ db' = IF ok THEN [db EXCEPT !.cards = DeleteMany(@, Range(loc[p].cids))] ELSE db
        /\ loc' = [loc EXCEPT ![p].cleaned = IF ok THEN @ \cup {"cards"} ELSE @]
    /\ Finish(p, [err |-> loc[p].err])
    /\ UNCHANGED <<nextId, opsLeft, op, arg, u, pre, createFailed, deleteFault>>

(***************************************************************************)
(* GetUser, GetUserByName, GetCard, GetAddress: one storage call each.     *)
(***************************************************************************)
\* mutant: a filter that matches nothing decodes the zero document
FindOneZero(coll, id) ==
    [err |-> NilErr,
     doc |-> IF id \in DOMAIN coll THEN coll[id] ELSE MongoUserDoc(NewUser, << >>, << >>)]

\* FindOne(_id = id).Decode: the document, or ErrNoDocuments
FindOne(coll, id) == IF id \in DOMAIN coll THEN [err |-> NilErr, doc |-> coll[id]]
                     ELSE [err |-> ErrNoDocuments, doc |-> None]

\* what GetUser(id) returns when the storage call succeeds (ok) or fails
GetUserResult(customers, id, ok) ==
    IF ~IsValidObjectID(id) THEN [err |-> ErrInvalidHexID, val |-> NewUser]
    ELSE IF ~ok THEN [err |-> ErrStorage, val |-> None]
    ELSE LET f == FindOne(customers, ObjectIDFromHex(id))
         IN IF f.err # NilErr THEN [err |-> f.err, val |-> None]
            ELSE [err |-> NilErr, val |-> AddUserIDs(ObjectIDFromHex(id), f.doc)]

GetUser(p) ==
    /\ Free(p)
    /\ \E id \in IdStrings :
        /\ \E ok \in IF IsValidObjectID(id) THEN Outcomes ELSE {TRUE} :
            /\ Charge(ok)
            /\ Begin(p, "GetUser", [id |-> id], None, None, "done",
                     IF IsValidObjectID(id) THEN 1 ELSE 0)
            /\ ret' = [ret EXCEPT ![p] = GetUserResult(db.customers, id, ok)]
        /\ UNCHANGED <<db, nextId, createFailed, deleteFault>>

\* what GetUserByName(name) may return: FindOne(username = name)
GetUserByNameResults(customers, name, ok) ==
    LET hits == {x \in DOMAIN customers : customers[x].username = name}
    IN IF ~ok THEN {[err |-> ErrStorage, val |-> None]}
       ELSE IF hits = {} THEN {[err |-> ErrNoDocuments, val |-> None]}
       ELSE {[err |-> NilErr, val |-> AddUserIDs(x, customers[x])] : x \in hits}

GetUserByName(p) ==
    /\ Free(p)
    /\ \E name \in Usernames, ok \in Outcomes :
        /\ Charge(ok)
        /\ Begin(p, "GetUserByName", [name |-> name], None, None, "done", 1)
        /\ \E r \in GetUserByNameResults(db.customers, name, ok) : ret' = [ret EXCEPT ![p] = r]
        /\ UNCHANGED <<db, nextId, createFailed, deleteFault>>

\* what GetUsers() may return: Find({}) and cursor.All, a failure of either
\* giving the nil slice and the error; the cursor fixes no order
GetUsersResults(customers, ok) ==
    IF ~ok THEN {[err |-> ErrStorage, val |-> << >>]}
    ELSE {[err |-> NilErr, val |-> [i \in 1 .. Len(o) |-> AddUserIDs(o[i], customers[o[i]])]] :
             o \in Orderings(DOMAIN customers)}

GetUsers(p) ==
    /\ Free(p)
    /\ \E ok \in Outcomes :
        /\ Charge(ok)
        /\ Begin(p, "GetUsers", None, None, None, "done", 1)
        /\ \E r \in GetUsersResults(db.customers, ok) : ret' = [ret EXCEPT ![p] = r]
        /\ UNCHANGED <<db, nextId, createFailed, deleteFault>>

\* what GetCard(id) / GetAddress(id) returns from collection coll
GetAttributeResult(coll, id, ok) ==
    IF ~IsValidObjectID(id) THEN [err |-> ErrInvalidHexID, val |-> None]
    ELSE IF ~ok THEN [err |-> ErrStorage, val |-> None]
    ELSE LET f == FindOne(coll, ObjectIDFromHex(id))
         IN IF f.err # NilErr THEN [err |-> f.err, val |-> None]
            ELSE [err |-> NilErr, val |-> AddID(ObjectIDFromHex(id), f.doc)]

GetAttribute(p, name, kind) ==
    /\ Free(p)
    /\ \E id \in IdStrings :
        /\ \E ok \in IF IsValidObjectID(id) THEN Outcomes ELSE {TRUE} :
            /\ Charge(ok)
            /\ Begin(p, name, [id |-> id], None, None, "done",
                     IF IsValidObjectID(id) THEN 1 ELSE 0)
            /\ ret' = [ret EXCEPT ![p] = GetAttributeResult(db[kind], id, ok)]
        /\ UNCHANGED <<db, nextId, createFailed, deleteFault>>

GetCard(p) == GetAttribute(p, "GetCard", "cards")

GetAddress(p) == GetAttribute(p, "GetAddress", "addresses")

(***************************************************************************)
(* GetUserAttributes.                                                      *)
(***************************************************************************)
\* the ids of a list of entities
IdsOf(es) == [i \in 1 .. Len(es) |-> es[i].ID]

AllValid(es) == \A i \in 1 .. Len(es) : IsValidObjectID(es[i].ID)

\* the records of the listed ids in the orders a cursor may yield them
Fetched(coll, es) ==
    LET hits == FindIn(coll, {ObjectIDFromHex(es[i].ID) : i \in 1 .. Len(es)})
    IN {[i \in 1 .. Len(o) |-> AddID(o[i], coll[o[i]])] : o \in Orderings(hits)}

\* the lists cursor.All may leave behind when it fails: nothing, or the
\* records read before the failure
ReadInPart(coll, es) ==
    UNION {{SubSeq(r, 1, k) : k \in 0 .. Len(r)} : r \in Fetched(coll, es)}

\* mutant: the list is assigned whether Find succeeded or not
ResolvedUnguarded(coll, es, outcome) ==
    IF outcome = "ok" THEN Fetched(coll, es) ELSE {<< >>}

\* Find(_id $in ids) and cursor.All: the matching records in the order the
\* cursor yields them, which the query does not fix; "find": Find fails and
\* the list is left alone; "all": cursor.All fails, its error is dropped and
\* the list becomes what had been read
Resolved(coll, es, outcome) ==
    IF outcome = "find" THEN {es}
    ELSE IF outcome = "all" THEN ReadInPart(coll, es)
    ELSE Fetched(coll, es)

FetchOutcomes == IF faultsLeft > 0 THEN {"ok", "find", "all"} ELSE {"ok"}

\* the Users a caller passes: those GetUser returns, as they are or with
\* one more entry in a list (a malformed id, or an id without a record)
ResolveInputs ==
    LET base == {AddUserIDs(c, db.customers[c]) : c \in DOMAIN db.customers} \cup {NewUser}
        extra == {[ID |-> i, val |-> ""] : i \in Malformed \cup {Hex(nextId)}}
    IN base \cup {[b EXCEPT !.Addresses = Append(@, e)] : b \in base, e \in extra}
            \cup {[b EXCEPT !.Cards = Append(@, e)] : b \in base, e \in extra}

\* the address half: validation of every address id, then the fetch
ResolveAddresses(p) ==
    /\ Free(p)
    /\ \E user \in ResolveInputs :
        /\ IF ~AllValid(user.Addresses)
           THEN /\ Begin(p, "GetUserAttributes", user, user, None, "done", 0)
                /\ ret' = [ret EXCEPT ![p] = [err |-> ErrInvalidHexID]]
                /\ UNCHANGED faultsLeft
           ELSE \E outcome \in FetchOutcomes :
                    \E as \in Resolved(db.addresses, user.Addresses, outcome) :
                        /\ Charge(outcome = "ok")
                        /\ Begin(p, "GetUserAttributes", user, [user EXCEPT !.Addresses = as],
                                 [addresses |-> outcome, cards |-> "none"], "resolveCards", 1)
                        /\ UNCHANGED ret
        /\ UNCHANGED <<db, nextId, createFailed, deleteFault>>

\* the card half: validation of every card id, then the fetch
ResolveCards(p) ==
    /\ pc[p] = "resolveCards"
    /\ IF ~AllValid(u[p].Cards)
       THEN /\ Finish(p, [err |-> ErrInvalidHexID])
            /\ UNCHANGED <<u, loc, faultsLeft, calls>>
       ELSE \E outcome \in FetchOutcomes :
                \E cs \in Resolved(db.cards, u[p].Cards, outcome) :
                    /\ Charge(outcome = "ok")
                    /\ Issue(p)
                    /\ u' = [u EXCEPT ![p].Cards = cs]
                    /\ loc' = [loc EXCEPT ![p].cards = outcome]
                    /\ Finish(p, [err |-> NilErr])
    /\ UNCHANGED <<db, nextId, opsLeft, op, arg, pre, createFailed, deleteFault>>

(***************************************************************************)
(* CreateCard, CreateAddress.                                              *)
(***************************************************************************)
\* the check of userid, the fresh id and the ReplaceOne of the record
CreateAttribute(p, name, kind, vals) ==
    /\ Free(p)
    /\ \E val \in vals, userid \in IdStrings :
        LET entity == [ID |-> EmptyStr, val |-> val]
            a == [entity |-> entity, userid |-> userid]
            id == nextId
        IN /\ IF userid # EmptyStr /\ ~IsValidObjectID(userid)
              THEN /\ Begin(p, name, a, entity, None, "done", 0)
                   /\ ret' = [ret EXCEPT ![p] = [err |-> ErrInvalidHexID]]
                   /\ UNCHANGED <<db, nextId, faultsLeft>>
              ELSE \E ok \in Outcomes :
                       /\ Charge(ok)
                       /\ nextId' = nextId + 1
                       /\ IF ~ok
                          THEN /\ Begin(p, name, a, entity, [id |-> id], "done", 1)
                               /\ ret' = [ret EXCEPT ![p] = [err |-> ErrStorage]]
                               /\ UNCHANGED db
                          ELSE /\ db' = [db EXCEPT ![kind] = ReplaceOne(@, id, val)]
                               /\ IF userid = EmptyStr
                                  THEN /\ Begin(p, name, a, AddID(id, val), [id |-> id], "done", 1)
                                       /\ ret' = [ret EXCEPT ![p] = [err |-> NilErr]]
                                  ELSE /\ Begin(p, name, a, entity, [id |-> id], "appendAttributeId", 1)
                                       /\ UNCHANGED ret
           /\ UNCHANGED <<createFailed, deleteFault>>

CreateCard(p) == CreateAttribute(p, "CreateCard", "cards", LongNums)

CreateAddress(p) == CreateAttribute(p, "CreateAddress", "addresses", Streets)

\* the collection a handler named name writes its records to
KindOf(name) == IF name = "CreateCard" THEN "cards" ELSE "addresses"

\* appendAttributeId: UpdateOne(_id = uid, $addToSet {attr: id}) on customers,
\* and the return of CreateCard / CreateAddress
AppendAttributeId(p) ==
    /\ pc[p] = "appendAttributeId"
    /\ \E ok \in Outcomes :
        LET uid == ObjectIDFromHex(arg[p].userid)
            id == loc[p].id
        IN /\ Charge(ok)
           /\ Issue(p)
           /\ IF ok
              THEN /\ db' = [db EXCEPT !.customers = UpdateOneAddToSet(@, uid, KindOf(op[p]), id)]
                   /\ u' = [u EXCEPT ![p] = AddID(id, arg[p].entity.val)]
                   /\ Finish(p, [err |-> NilErr])
              ELSE /\ Finish(p, [err |-> ErrStorage])
                   /\ UNCHANGED <<db, u>>
    /\ UNCHANGED <<nextId, opsLeft, op, arg, loc, pre, createFailed, deleteFault>>

(***************************************************************************)
(* Delete.                                                                 *)
(***************************************************************************)
Entities == {"customers", "addresses", "cards"}

\* the ObjectIDs of the entries of a list whose id parses
ParsedIds(es) == {ObjectIDFromHex(es[i].ID) : i \in {j \in 1 .. Len(es) : IsValidObjectID(es[j].ID)}}

\* the check of id, and the first storage call: for customers the GetUser
\* that finds the linked ids, otherwise the $pull of the reference from
\* every customer, whose error is dropped
StartDelete(p) ==
    /\ Free(p)
    /\ \E entity \in Entities, id \in IdStrings :
        LET a == [entity |-> entity, id |-> id]
            oid == ObjectIDFromHex(id)
        IN IF ~IsValidObjectID(id)
           THEN /\ Begin(p, "Delete", a, None, None, "done", 0)
                /\ ret' = [ret EXCEPT ![p] = [err |-> ErrInvalidHexID]]
                /\ UNCHANGED <<db, nextId, faultsLeft, createFailed, deleteFault>>
           ELSE \E ok \in Outcomes :
                    /\ Charge(ok)
                    /\ deleteFault' = (deleteFault \/ ~ok)
                    /\ IF entity = "customers"
                       THEN /\ UNCHANGED db
                            /\ LET r == GetUserResult(db.customers, id, ok)
                               IN IF r.err # NilErr
                                  THEN /\ Begin(p, "Delete", a, None, None, "done", 1)
                                       /\ ret' = [ret EXCEPT ![p] = [err |-> r.err]]
                                  ELSE /\ Begin(p, "Delete", a, None,
                                                [oid |-> oid, aids |-> ParsedIds(r.val.Addresses),
                                                 cids |-> ParsedIds(r.val.Cards)],
                                                "deleteAddresses", 1)
                                       /\ UNCHANGED ret
                       ELSE /\ db' = IF ok THEN [db EXCEPT !.customers = UpdateManyPull(@, entity, oid)]
                                     ELSE db
                            /\ Begin(p, "Delete", a, None, [oid |-> oid], "deleteEntity", 1)
                            /\ UNCHANGED ret
                    /\ UNCHANGED <<nextId, createFailed>>

\* DeleteMany of the linked addresses, its error dropped
DeleteLinkedAddresses(p) ==
    /\ pc[p] = "deleteAddresses"
    /\ \E ok \in Outcomes :
        /\ Charge(ok)
        /\ deleteFault' = (deleteFault \/ ~ok)
        /\ db' = IF ok THEN [db EXCEPT !.addresses = DeleteMany(@, loc[p].aids)] ELSE db
    /\ Issue(p)
    /\ Goto(p, "deleteCards")
    /\ UNCHANGED <<nextId, opsLeft, op, arg, u, loc, ret, pre, createFailed>>

\* DeleteMany of the linked cards, its error dropped
DeleteLinkedCards(p) ==
    /\ pc[p] = "deleteCards"
    /\ \E ok \in Outcomes :
        /\ Charge(ok)
        /\ deleteFault' = (deleteFault \/ ~ok)
        /\ db' = IF ok THEN [db EXCEPT !.cards = DeleteMany(@, loc[p].cids)] ELSE db
    /\ Issue(p)
    /\ Goto(p, "deleteEntity")
    /\ UNCHANGED <<nextId, opsLeft, op, arg, u, loc, ret, pre, createFailed>>

\* DeleteOne(_id = oid) on the entity's collection; Delete returns its error
DeleteEntity(p) ==
    /\ pc[p] = "deleteEntity"
    /\ \E ok \in Outcomes :
        /\ Charge(ok)
        /\ deleteFault' = (deleteFault \/ ~ok)
        /\ db' = IF ok THEN [db EXCEPT ![arg[p].entity] = DeleteOne(@, loc[p].oid)] ELSE db
        /\ Finish(p, [err |-> IF ok THEN NilErr ELSE ErrStorage])
    /\ Issue(p)
    /\ UNCHANGED <<nextId, opsLeft, op, arg, u, loc, pre, createFailed>>

\* the caller takes the result; the process is free for the next operation
Return(p) ==
    /\ pc[p] = "done"
    /\ op' = [op EXCEPT ![p] = "none"]
    /\ pc' = [pc EXCEPT ![p] = "idle"]
    /\ arg' = [arg EXCEPT ![p] = None]
    /\ u' = [u EXCEPT ![p] = None]
    /\ loc' = [loc EXCEPT ![p] = None]
    /\ ret' = [ret EXCEPT ![p] = None]
    /\ pre' = [pre EXCEPT ![p] = None]
    /\ calls' = [calls EXCEPT ![p] = 0]
    /\ UNCHANGED <<db, nextId, opsLeft, faultsLeft, lim, createFailed, deleteFault, main>>

Step(p) ==
    \/ StartCreateUser(p)
    \/ CreateCardsWrite(p)
    \/ CreateAddressesWrite(p)
    \/ UpsertCustomer(p)
    \/ CleanAddresses(p)
    \/ CleanCards(p)
    \/ GetUser(p)
    \/ GetUserByName(p)
    \/ GetUsers(p)
    \/ GetCard(p)
    \/ GetAddress(p)
    \/ ResolveAddresses(p)
    \/ ResolveCards(p)
    \/ CreateCard(p)
    \/ CreateAddress(p)
    \/ AppendAttributeId(p)
    \/ StartDelete(p)
    \/ DeleteLinkedAddresses(p)
    \/ DeleteLinkedCards(p)
    \/ DeleteEntity(p)
    \/ Return(p)

\* the handlers issued one after the other by one caller
Next == Step(1)

Spec == Init /\ [][Next]_vars

\* the handlers of concurrently issued requests, their storage calls
\* interleaved; the requests carry shorter lists and fewer calls fail
InitConc == /\ db = EmptyDb
            /\ main = Serving
            /\ nextId = 1
            /\ opsLeft = MaxOps
            /\ faultsLeft = MaxFaults - 1
            /\ lim = [addrs |-> MaxAddrs - 1, cards |-> MaxCards]
            /\ createFailed = FALSE
            /\ deleteFault = FALSE
            /\ Idle

NextConc == \E p \in Procs : Step(p)

SpecConc == InitConc /\ [][NextConc]_vars

\* concurrently issued requests against a storage in which no call fails
InitRace == /\ db = EmptyDb
            /\ main = Serving
            /\ nextId = 1
            /\ opsLeft = MaxOps
            /\ faultsLeft = 0
            /\ lim = [addrs |-> MaxAddrs - 1, cards |-> MaxCards]
            /\ createFailed = FALSE
            /\ deleteFault = FALSE
            /\ Idle

SpecRace == InitRace /\ [][NextConc]_vars

\* concurrently issued requests against the database a completed CreateUser
\* of a user with one card and one address has left
InitOneUser ==
    /\ db = [customers |-> (1 :> MongoUserDoc([Username |-> "u1", Password |-> "p1"], <<3>>, <<2>>)),
             addresses |-> (3 :> "s1"),
             cards |-> (2 :> "n1")]
    /\ main = Serving
    /\ nextId = 4
    /\ opsLeft = MaxOps
    /\ faultsLeft = MaxFaults - 1
    /\ lim = [addrs |-> MaxAddrs - 1, cards |-> MaxCards]
    /\ createFailed = FALSE
    /\ deleteFault = FALSE
    /\ Idle

SpecOneUser == InitOneUser /\ [][NextConc]_vars

(***************************************************************************)
(* A database that earlier runs and other writers have filled: two         *)
(* customers whose reference lists range over the same stored addresses    *)
(* and cards (an address or card is related to any number of users).       *)
(***************************************************************************)
StoredCustomers == {1, 2}
StoredAddresses == {3, 4}
StoredCards == {5}

\* the lists without repetition over the ids in S
RefLists(S) == UNION {Orderings(T) : T \in SUBSET S}

StoredName(c) == IF c = 1 THEN "u1" ELSE "u2"

StoredDbs ==
    {[customers |-> [c \in StoredCustomers |->
                        [username |-> StoredName(c), password |-> "p1",
                         addresses |-> refs[c].a, cards |-> refs[c].c]],
      addresses |-> [x \in StoredAddresses |-> IF x = 3 THEN "s1" ELSE "s2"],
      cards |-> [x \in StoredCards |-> "n1"]] :
        refs \in [StoredCustomers -> [a : RefLists(StoredAddresses), c : RefLists(StoredCards)]]}

InitStored == /\ db \in StoredDbs
              /\ main = Serving
              /\ nextId = Cardinality(StoredCustomers \cup StoredAddresses \cup StoredCards) + 1
              /\ opsLeft = MaxOps - 1
              /\ faultsLeft = MaxFaults - 1
              /\ lim = [addrs |-> MaxAddrs - 1, cards |-> MaxCards]
              /\ createFailed = FALSE
              /\ deleteFault = FALSE
              /\ Idle

SpecStored == InitStored /\ [][Next]_vars

(***************************************************************************)
(* Startup (main): db.Init() is attempted until it returns nil, then the   *)
(* service is assembled and the HTTP server started; requests are handled  *)
(* from then on.                                                           *)
(***************************************************************************)
ErrNoDatabaseSelected == "ErrNoDatabaseSelected"

\* mutant: dbconn is set whatever db.Init() returned
ConnectedAlways(err) == TRUE

\* the test of the loop body: err == nil
Connected(err) == err = NilErr

\* what db.Init() returns: nil, the error of Connect, Ping or EnsureIndexes,
\* or ErrNoDatabaseSelected; the database answers after MaxInitFails failures
InitOutcomes ==
    IF main.failed < MaxInitFails THEN {NilErr, ErrStorage, ErrNoDatabaseSelected} ELSE {NilErr}

\* one round of the loop `for !dbconn`
DbInit ==
    /\ main.pc = "bootstrap"
    /\ ~main.dbconn
    /\ \E err \in InitOutcomes :
        main' = [pc |-> IF Connected(err) THEN "setup"
                        ELSE IF err = ErrNoDatabaseSelected THEN "fatal"
                        ELSE "bootstrap",
                 dbconn |-> Connected(err),
                 attempts |-> main.attempts + 1,
                 failed |-> IF err = NilErr THEN main.failed ELSE main.failed + 1,
                 succeeded |-> (main.succeeded \/ err = NilErr),
                 last |-> err]
    /\ UNCHANGED <<db, nextId, opsLeft, faultsLeft, op, pc, arg, u, loc, ret, pre, lim, calls,
                   createFailed, deleteFault>>

\* the service, the endpoints and the router are assembled and the goroutine
\* of http.ListenAndServe is launched
StartServer ==
    /\ main.pc = "setup"
    /\ main' = [main EXCEPT !.pc = "serving"]
    /\ UNCHANGED <<db, nextId, opsLeft, faultsLeft, op, pc, arg, u, loc, ret, pre, lim, calls,
                   createFailed, deleteFault>>

\* the server handles a request
Serve == main.pc = "serving" /\ Step(1)

InitBoot == /\ db = EmptyDb
            /\ main = [pc |-> "bootstrap", dbconn |-> FALSE, attempts |-> 0, failed |-> 0,
                       succeeded |-> FALSE, last |-> NilErr]
            /\ nextId = 1
            /\ opsLeft = MaxOps - 1
            /\ faultsLeft = MaxFaults - 1
            /\ lim = [addrs |-> MaxAddrs - 1, cards |-> MaxCards]
            /\ createFailed = FALSE
            /\ deleteFault = FALSE
            /\ Idle

NextBoot == DbInit \/ StartServer \/ Serve

\* main() is a running goroutine: its loop and the start of the server are
\* not postponed forever
SpecBoot == InitBoot /\ [][NextBoot]_vars /\ WF_vars(DbInit) /\ WF_vars(StartServer)

(***************************************************************************)
(* Properties.                                                             *)
(***************************************************************************)
Done(p, name) == pc[p] = "done" /\ op[p] = name

\* no storage call has failed since p started
NoFault(p) == faultsLeft = pre[p].faults

\* every document of old is in new, as it was
Kept(old, new) == \A x \in DOMAIN old : x \in DOMAIN new /\ new[x] = old[x]

\* the customers that held the submitted username when p started
C1_Holders(p) == {c \in DOMAIN pre[p].db.customers : pre[p].db.customers[c].username = arg[p].Username}

\* C1: a CreateUser that runs after a customer with the same username was
\* stored fails, with the duplicate-key error unless a storage call failed,
\* and leaves that customer's document and every record it references as
\* they were, so GetUser and GetUserByName return the first user unchanged.
C1_DuplicateCreateFails ==
    \A p \in Procs :
        (Done(p, "CreateUser") /\ C1_Holders(p) # {}) =>
            /\ ret[p].err \in {ErrDuplicateKey, ErrStorage}
            /\ (NoFault(p) => ret[p].err = ErrDuplicateKey)
            /\ db.customers = pre[p].db.customers
            /\ \A c \in C1_Holders(p) :
                /\ \A a \in Range(db.customers[c].addresses) \cap DOMAIN pre[p].db.addresses :
                       a \in DOMAIN db.addresses /\ db.addresses[a] = pre[p].db.addresses[a]
                /\ \A a \in Range(db.customers[c].cards) \cap DOMAIN pre[p].db.cards :
                       a \in DOMAIN db.cards /\ db.cards[a] = pre[p].db.cards[a]
                /\ GetUserResult(db.customers, Hex(c), TRUE)
                       = [err |-> NilErr, val |-> AddUserIDs(c, pre[p].db.customers[c])]
            /\ GetUserByNameResults(db.customers, arg[p].Username, TRUE)
                   = {[err |-> NilErr, val |-> AddUserIDs(c, pre[p].db.customers[c])] : c \in C1_Holders(p)}

C1_Witness ==
    \E p \in Procs :
        /\ Done(p, "CreateUser")
        /\ ret[p].err = ErrDuplicateKey
        /\ Len(arg[p].Addresses) > 0
        /\ \E c \in C1_Holders(p) : db.customers[c].addresses # << >>

\* the multiset of the contents (every field but the id) of a list of entities
Contents(es) == BagOf([i \in 1 .. Len(es) |-> es[i].val])

\* r, returned by GetUser or GetUserByName, names the user p created, and
\* GetUserAttributes on it yields the submitted addresses and cards
C3_ReadBack(p, r) ==
    /\ r.err = NilErr
    /\ r.val.UserID = u[p].UserID
    /\ \A as \in Resolved(db.addresses, r.val.Addresses, "ok") :
           Len(as) = Len(arg[p].Addresses) /\ Contents(as) = Contents(arg[p].Addresses)
    /\ \A cs \in Resolved(db.cards, r.val.Cards, "ok") :
           Len(cs) = Len(arg[p].Cards) /\ Contents(cs) = Contents(arg[p].Cards)

\* C3: a CreateUser with N addresses and M cards in which no storage step
\* fails adds exactly N address records, M card records and one customer
\* document whose reference lists hold exactly the new ids, and GetUser or
\* GetUserByName followed by GetUserAttributes gives back lists with the
\* submitted contents.
C3_CreateStoresAndReadsBack ==
    \A p \in Procs :
        (Done(p, "CreateUser") /\ ret[p].err = NilErr) =>
            LET newA == DOMAIN db.addresses \ DOMAIN pre[p].db.addresses
                newC == DOMAIN db.cards \ DOMAIN pre[p].db.cards
                id == loc[p].id
            IN /\ Cardinality(newA) = Len(arg[p].Addresses)
               /\ Cardinality(newC) = Len(arg[p].Cards)
               /\ DOMAIN db.customers \ DOMAIN pre[p].db.customers = {id}
               /\ Kept(pre[p].db.customers, db.customers)
               /\ Kept(pre[p].db.addresses, db.addresses)
               /\ Kept(pre[p].db.cards, db.cards)
               /\ Range(db.customers[id].addresses) = newA
               /\ Len(db.customers[id].addresses) = Len(arg[p].Addresses)
               /\ Range(db.customers[id].cards) = newC
               /\ Len(db.customers[id].cards) = Len(arg[p].Cards)
               /\ C3_ReadBack(p, GetUserResult(db.customers, u[p].UserID, TRUE))
               /\ \A r \in GetUserByNameResults(db.customers, arg[p].Username, TRUE) : C3_ReadBack(p, r)

C3_Witness ==
    \E p \in Procs :
        /\ Done(p, "CreateUser")
        /\ ret[p].err = NilErr
        /\ Len(arg[p].Addresses) = 2
        /\ arg[p].Addresses[1].val # arg[p].Addresses[2].val
        /\ Len(arg[p].Cards) = 1
        /\ pre[p].db.customers # EmptyColl

\* C4: when the upsert of the customer document fails, CreateUser returns the
\* upsert's error whatever the compensating deletes did, no customer document
\* is added, and of each kind whose compensating delete succeeded no record
\* written by this call remains.
C4_FailedUpsertCompensated ==
    \A p \in Procs :
        (Done(p, "CreateUser") /\ loc[p].err # NilErr) =>
            /\ ret[p].err = loc[p].err
            /\ ret[p].err \in {ErrDuplicateKey, ErrStorage}
            /\ db.customers = pre[p].db.customers
            /\ loc[p].id \notin DOMAIN db.customers
            /\ ("addresses" \in loc[p].cleaned => Range(loc[p].aids) \cap DOMAIN db.addresses = {})
            /\ ("cards" \in loc[p].cleaned => Range(loc[p].cids) \cap DOMAIN db.cards = {})

C4_Witness ==
    \E p \in Procs :
        /\ Done(p, "CreateUser")
        /\ loc[p].err # NilErr
        /\ Len(loc[p].aids) = 2
        /\ Len(loc[p].cids) = 1
        /\ loc[p].cleaned = {"addresses", "cards"}

\* C5: when the upsert succeeds although the write of an embedded address or
\* card failed, the User handed back carries the id of the customer document
\* and the ids of the records that were created.
C5_PartialUserCarriesIds ==
    \A p \in Procs :
        (Done(p, "CreateUser") /\ ret[p].err = ErrAttributes) =>
            /\ loc[p].id \in DOMAIN db.customers
            /\ u[p].UserID # EmptyStr
            /\ u[p].UserID = Hex(loc[p].id)
            /\ \A i \in 1 .. Len(loc[p].aids) : u[p].Addresses[i].ID = Hex(loc[p].aids[i])
            /\ \A i \in 1 .. Len(loc[p].cids) : u[p].Cards[i].ID = Hex(loc[p].cids[i])

\* C6: whenever Delete("customers", id) returns nil, the customer document is
\* gone and no address or card it referenced when Delete started has a
\* record, so GetAddress / GetCard on those ids return ErrNoDocuments.
C6_CascadeRemovesLinked ==
    \A p \in Procs :
        (Done(p, "Delete") /\ arg[p].entity = "customers" /\ ret[p].err = NilErr) =>
            LET doc == pre[p].db.customers[loc[p].oid]
            IN /\ loc[p].oid \notin DOMAIN db.customers
               /\ \A a \in Range(doc.addresses) :
                      GetAttributeResult(db.addresses, Hex(a), TRUE).err = ErrNoDocuments
               /\ \A c \in Range(doc.cards) :
                      GetAttributeResult(db.cards, Hex(c), TRUE).err = ErrNoDocuments

\* some customer document references an id that has no record
Dangling ==
    \E c \in DOMAIN db.customers :
        \/ ~(Range(db.customers[c].addresses) \subseteq DOMAIN db.addresses)
        \/ ~(Range(db.customers[c].cards) \subseteq DOMAIN db.cards)

\* no handler is running
Quiescent == \A p \in Procs : pc[p] \in {"idle", "done"}

\* C7 as stated: between operations a dangling reference exists only if an
\* earlier CreateUser had a storage call fail; no Delete leaves one.
C7_DanglingOnlyAfterFailedCreate == (Quiescent /\ Dangling) => createFailed

\* C7: between operations issued one at a time, a dangling reference exists
\* only if a storage call of an earlier Delete failed; CreateUser, also when
\* its writes partly fail, and a Delete whose calls all succeed leave none.
C7_DanglingOnlyAfterFailedDelete == (Quiescent /\ Dangling) => deleteFault

C7_Witness == Quiescent /\ Dangling /\ ~createFailed /\ deleteFault

\* the identifier argument of the handler p runs
IdArg(p) == IF op[p] \in {"CreateCard", "CreateAddress"} THEN arg[p].userid ELSE arg[p].id

\* C8: GetUser, GetCard, GetAddress, Delete, and CreateCard / CreateAddress
\* with a non-empty userid, fail with ErrInvalidHexID on a malformed
\* identifier before any storage call and leave the three collections as
\* they were.
C8_MalformedIdRejected ==
    \A p \in Procs :
        (/\ pc[p] = "done"
         /\ op[p] \in {"GetUser", "GetCard", "GetAddress", "Delete", "CreateCard", "CreateAddress"}
         /\ \/ IdArg(p) \in Malformed
            \/ IdArg(p) = EmptyStr /\ op[p] \notin {"CreateCard", "CreateAddress"}) =>
            /\ ret[p].err = ErrInvalidHexID
            /\ calls[p] = 0
            /\ db = pre[p].db

C8_Witness ==
    \E p \in Procs :
        /\ Done(p, "CreateCard")
        /\ arg[p].userid \in Malformed
        /\ Len(arg[p].userid) = HexLen
        /\ ret[p].err = ErrInvalidHexID
        /\ db.customers # EmptyColl

\* C9: if an id in the User's address list or card list is malformed,
\* GetUserAttributes fails with ErrInvalidHexID and both lists of the User
\* are as they were when the call started.
C9_ResolveFailsClosed ==
    \A p \in Procs :
        (Done(p, "GetUserAttributes") /\ (~AllValid(arg[p].Addresses) \/ ~AllValid(arg[p].Cards))) =>
            /\ ret[p].err = ErrInvalidHexID
            /\ u[p].Addresses = arg[p].Addresses
            /\ u[p].Cards = arg[p].Cards

\* CreateUser of p wrote its customer document
Wrote(p) == ret[p].err \in {NilErr, ErrAttributes}

\* the customer document p wrote, if any, has not been deleted since
StillStored(p) == Wrote(p) => loc[p].id \in DOMAIN db.customers

\* none of the writes of CreateUser of p met a storage failure
OwnWritesOk(p) == loc[p].carderr = NilErr /\ loc[p].addrerr = NilErr /\ loc[p].err # ErrStorage

\* C2: no two customer documents ever hold the same username, and of two
\* CreateUser calls with the same username whose storage calls interleave at
\* most one writes its customer document and returns success, the other
\* returning the duplicate-key error unless one of its own writes failed.
C2_RacingCreates ==
    /\ \A c, d \in DOMAIN db.customers :
           c # d => db.customers[c].username # db.customers[d].username
    /\ \A p, q \in Procs :
        (/\ p # q
         /\ Done(p, "CreateUser") /\ Done(q, "CreateUser")
         /\ arg[p].Username = arg[q].Username
         /\ StillStored(p) /\ StillStored(q)) =>
            /\ ~(Wrote(p) /\ Wrote(q))
            /\ ((Wrote(p) /\ OwnWritesOk(q)) => ret[q].err = ErrDuplicateKey)

\* both calls started while the username was free
C2_Witness ==
    \E p, q \in Procs :
        /\ p # q
        /\ Done(p, "CreateUser") /\ Done(q, "CreateUser")
        /\ arg[p].Username = arg[q].Username
        /\ C1_Holders(p) = {} /\ C1_Holders(q) = {}
        /\ ret[p].err = NilErr
        /\ ret[q].err = ErrDuplicateKey

\* the customers whose reference list under attr holds id
HoldersOf(customers, attr, id) == {c \in DOMAIN customers : id \in Range(customers[c][attr])}

\* the other reference list of a customer document
OtherAttr(attr) == IF attr = "addresses" THEN "cards" ELSE "addresses"

Count(s, x) == Cardinality({i \in 1 .. Len(s) : s[i] = x})

\* p runs CreateCard or CreateAddress and has returned nil
CreatedAttribute(p) ==
    /\ pc[p] = "done"
    /\ op[p] \in {"CreateCard", "CreateAddress"}
    /\ ret[p].err = NilErr

\* the record p wrote is stored, and no customer other than c has changed
C11_RecordAndFrame(p, c) ==
    /\ loc[p].id \in DOMAIN db[KindOf(op[p])]
    /\ db[KindOf(op[p])][loc[p].id] = arg[p].entity.val
    /\ DOMAIN db.customers = DOMAIN pre[p].db.customers
    /\ \A d \in DOMAIN db.customers \ {c} : db.customers[d] = pre[p].db.customers[d]

\* C11 as stated: whenever CreateCard / CreateAddress with a non-empty
\* well-formed userid returns nil, a customer document with that id exists and
\* its reference list of the kind holds the new id exactly once, the new
\* record exists and every other customer is unchanged; with an empty userid
\* no customer document changes.
C11_AppendLinksToUser ==
    \A p \in Procs :
        CreatedAttribute(p) =>
            IF arg[p].userid = EmptyStr
            THEN db.customers = pre[p].db.customers
            ELSE LET uid == ObjectIDFromHex(arg[p].userid)
                 IN /\ uid \in DOMAIN db.customers
                    /\ Count(db.customers[uid][KindOf(op[p])], loc[p].id) = 1
                    /\ C11_RecordAndFrame(p, uid)

\* C11: whenever CreateCard / CreateAddress with a non-empty well-formed
\* userid returns nil, the new record exists and every customer other than
\* userid is unchanged; if a customer document with id userid exists, its
\* reference list of the kind is the old list with the new id appended (so
\* the id is in it exactly once) and its other fields are unchanged; if none
\* exists, the call succeeds all the same and no customer document changes.
\* With an empty userid no customer document changes.
C11_AppendLinksToStoredUser ==
    \A p \in Procs :
        CreatedAttribute(p) =>
            IF arg[p].userid = EmptyStr
            THEN db.customers = pre[p].db.customers
            ELSE LET uid == ObjectIDFromHex(arg[p].userid)
                     attr == KindOf(op[p])
                     old == pre[p].db.customers
                 IN /\ C11_RecordAndFrame(p, uid)
                    /\ uid \in DOMAIN old =>
                        /\ db.customers[uid] = [old[uid] EXCEPT ![attr] = Append(@, loc[p].id)]
                        /\ Count(db.customers[uid][attr], loc[p].id) = 1

\* an address linked to a stored user that already references another one
C11_Witness ==
    \E p \in Procs :
        /\ CreatedAttribute(p)
        /\ op[p] = "CreateAddress"
        /\ arg[p].userid # EmptyStr
        /\ ObjectIDFromHex(arg[p].userid) \in DOMAIN pre[p].db.customers
        /\ pre[p].db.customers[ObjectIDFromHex(arg[p].userid)].addresses # << >>
        /\ loc[p].id \in Range(db.customers[ObjectIDFromHex(arg[p].userid)].addresses)

\* p runs Delete(entity, id) with a well-formed id that had no record in the
\* entity's collection when Delete started
DeleteOfMissing(p, entities) ==
    /\ Done(p, "Delete")
    /\ arg[p].entity \in entities
    /\ IsValidObjectID(arg[p].id)
    /\ ObjectIDFromHex(arg[p].id) \notin DOMAIN pre[p].db[arg[p].entity]

\* C12: Delete("customers", id) with a well-formed id that has no customer
\* document fails, with ErrNoDocuments unless the fetch itself failed, after
\* that one fetch and nothing else: customers, addresses and cards are as
\* they were.
C12_DeleteMissingCustomer ==
    \A p \in Procs :
        DeleteOfMissing(p, {"customers"}) =>
            /\ ret[p].err \in {ErrNoDocuments, ErrStorage}
            /\ (NoFault(p) => ret[p].err = ErrNoDocuments)
            /\ calls[p] = 1
            /\ db = pre[p].db

\* the id of a customer deleted earlier, while addresses are stored
C12_Witness ==
    \E p \in Procs :
        /\ DeleteOfMissing(p, {"customers"})
        /\ ret[p].err = ErrNoDocuments
        /\ db.addresses # EmptyColl

\* C13: Delete("addresses", id) and Delete("cards", id) with a well-formed id
\* that has no record of that kind fail with ErrNoDocuments, as
\* Delete("customers", id) does.
C13_DeleteMissingAttribute ==
    \A p \in Procs :
        (DeleteOfMissing(p, {"addresses", "cards"}) /\ NoFault(p)) =>
            ret[p].err = ErrNoDocuments

\* the list new holds, once each, the full records of exactly those ids of
\* the list old that have a record in coll
ResolvedFrom(coll, old, new) ==
    LET listed == {ObjectIDFromHex(old[i].ID) : i \in 1 .. Len(old)}
    IN /\ {new[i].ID : i \in 1 .. Len(new)} = {Hex(x) : x \in listed \cap DOMAIN coll}
       /\ Len(new) = Cardinality(listed \cap DOMAIN coll)
       /\ \A i \in 1 .. Len(new) :
              /\ IsValidObjectID(new[i].ID)
              /\ new[i] = AddID(ObjectIDFromHex(new[i].ID), coll[ObjectIDFromHex(new[i].ID)])

\* C14: when every id in the User's lists is well-formed and both fetches
\* succeed, GetUserAttributes returns nil and each list holds the full records
\* of exactly the listed ids that have a record; well-formed ids without a
\* record are dropped, not reported.
C14_ResolveDropsMissing ==
    \A p \in Procs :
        (/\ Done(p, "GetUserAttributes")
         /\ AllValid(arg[p].Addresses) /\ AllValid(arg[p].Cards)
         /\ NoFault(p)) =>
            /\ ret[p].err = NilErr
            /\ ResolvedFrom(db.addresses, arg[p].Addresses, u[p].Addresses)
            /\ ResolvedFrom(db.cards, arg[p].Cards, u[p].Cards)
            /\ u[p].UserID = arg[p].UserID
            /\ db = pre[p].db

\* an address list with one id that has a record and one that has none
C14_Witness ==
    \E p \in Procs :
        /\ Done(p, "GetUserAttributes")
        /\ NoFault(p)
        /\ AllValid(arg[p].Addresses) /\ AllValid(arg[p].Cards)
        /\ Len(arg[p].Addresses) = 2
        /\ Len(u[p].Addresses) = 1
        /\ u[p].Addresses[1].val \in Streets
        /\ ret[p].err = NilErr

\* user shows the customer document doc stored under c: its id is the string
\* form of c, and its lists hold one entry per reference of doc, in the same
\* order, each with that id and no other field set
ShowsRecord(user, c, doc) ==
    /\ user.UserID = Hex(c)
    /\ user.Username = doc.username
    /\ Len(user.Addresses) = Len(doc.addresses)
    /\ \A i \in 1 .. Len(doc.addresses) : user.Addresses[i] = [ID |-> Hex(doc.addresses[i]), val |-> ""]
    /\ Len(user.Cards) = Len(doc.cards)
    /\ \A i \in 1 .. Len(doc.cards) : user.Cards[i] = [ID |-> Hex(doc.cards[i]), val |-> ""]

\* C15: for every stored customer document, GetUser on its id, GetUserByName
\* on its username and GetUsers return, when the fetch succeeds, a User with
\* the string form of the document's id and one id-only entry per reference,
\* in the order of the reference lists (GetUsers one such User per document);
\* these reads change no collection.
C15_ReadsGivePlaceholders ==
    \A p \in Procs :
        /\ (Done(p, "GetUser") /\ IsValidObjectID(arg[p].id)
              /\ ObjectIDFromHex(arg[p].id) \in DOMAIN db.customers /\ NoFault(p)) =>
                /\ ret[p].err = NilErr
                /\ ret[p].val.UserID = arg[p].id
                /\ ShowsRecord(ret[p].val, ObjectIDFromHex(arg[p].id), db.customers[ObjectIDFromHex(arg[p].id)])
        /\ (Done(p, "GetUserByName") /\ NoFault(p)
              /\ \E c \in DOMAIN db.customers : db.customers[c].username = arg[p].name) =>
                /\ ret[p].err = NilErr
                /\ \E c \in DOMAIN db.customers :
                       db.customers[c].username = arg[p].name /\ ShowsRecord(ret[p].val, c, db.customers[c])
        /\ (Done(p, "GetUsers") /\ NoFault(p)) =>
                /\ ret[p].err = NilErr
                /\ Len(ret[p].val) = Cardinality(DOMAIN db.customers)
                /\ \A c \in DOMAIN db.customers :
                       \E i \in 1 .. Len(ret[p].val) : ShowsRecord(ret[p].val[i], c, db.customers[c])
        /\ (pc[p] = "done" /\ op[p] \in {"GetUser", "GetUserByName", "GetUsers"}) => db = pre[p].db

\* GetUsers over two customers, one of them referencing two addresses
C15_Witness ==
    \E p \in Procs :
        /\ Done(p, "GetUsers")
        /\ ret[p].err = NilErr
        /\ Len(ret[p].val) = 2
        /\ \E i \in 1 .. 2 : Len(ret[p].val[i].Addresses) = 2 /\ Len(ret[p].val[i].Cards) = 1

\* C16: after every failed attempt of db.Init() other than
\* ErrNoDatabaseSelected, which ends the process, another attempt follows,
\* until one returns nil; the HTTP server is started, and requests are
\* handled, only after an attempt has returned nil; and once an attempt has
\* returned nil the server is eventually started.
C16_BootstrapRetriedUntilSuccess ==
    /\ []((main.pc \in {"setup", "serving"}) => (main.succeeded /\ main.last = NilErr))
    /\ []((\E p \in Procs : pc[p] # "idle") => (main.pc = "serving" /\ main.succeeded))
    /\ [](main.pc = "fatal" => main.last = ErrNoDatabaseSelected)
    /\ \A n \in 1 .. MaxInitFails :
           (main.pc = "bootstrap" /\ main.attempts = n) ~> (main.attempts = n + 1)
    /\ main.succeeded ~> (main.pc = "serving")
    /\ <>(main.pc \in {"serving", "fatal"})

\* the server handles a request after db.Init() failed MaxInitFails times
C16_Witness ==
    /\ main.pc = "serving"
    /\ main.failed = MaxInitFails
    /\ main.attempts = MaxInitFails + 1
    /\ pc[1] = "done"

\* C17: whenever CreateUser has written its customer document, the
\* document's reference lists hold exactly the ids of the address and card
\* records this call wrote, in submission order: every referenced id has a
\* record with the submitted content, and every record the call added is
\* referenced, also when the write of an embedded address or card failed.
C17_ReferencesAreWrittenRecords ==
    \A p \in Procs :
        (Done(p, "CreateUser") /\ Wrote(p)) =>
            LET doc == db.customers[loc[p].id]
                newA == DOMAIN db.addresses \ DOMAIN pre[p].db.addresses
                newC == DOMAIN db.cards \ DOMAIN pre[p].db.cards
            IN /\ loc[p].id \in DOMAIN db.customers
               /\ doc.addresses = loc[p].aids
               /\ doc.cards = loc[p].cids
               /\ Range(doc.addresses) = newA
               /\ Range(doc.cards) = newC
               /\ Len(doc.addresses) = Cardinality(newA)
               /\ Len(doc.cards) = Cardinality(newC)
               /\ Len(doc.addresses) <= Len(arg[p].Addresses)
               /\ Len(doc.cards) <= Len(arg[p].Cards)
               /\ \A i \in 1 .. Len(doc.addresses) :
                      db.addresses[doc.addresses[i]] = arg[p].Addresses[i].val
               /\ \A i \in 1 .. Len(doc.cards) :
                      db.cards[doc.cards[i]] = arg[p].Cards[i].val
               /\ (ret[p].err = NilErr =>
                      Len(doc.addresses) = Len(arg[p].Addresses) /\ Len(doc.cards) = Len(arg[p].Cards))

\* the second of two addresses failed after a card and an address were written
C17_Witness ==
    \E p \in Procs :
        /\ Done(p, "CreateUser")
        /\ ret[p].err = ErrAttributes
        /\ Len(arg[p].Addresses) = 2
        /\ Len(db.customers[loc[p].id].addresses) = 1
        /\ Len(db.customers[loc[p].id].cards) = 1

\* C18: CreateUser attempts the write of every embedded address and every
\* embedded card: when it reaches the upsert of the customer document it has
\* issued one write per submitted item, whatever failed on the way.
C18_EveryItemAttempted ==
    \A p \in Procs :
        (op[p] = "CreateUser" /\ pc[p] = "upsert") =>
            calls[p] = Len(arg[p].Addresses) + Len(arg[p].Cards)

\* C19: when CreateUser returns the error of a failed write of the customer
\* document, the caller's User, the ids of its embedded addresses and cards
\* included, is as it was before the call.
C19_FailedCreateLeavesUser ==
    \A p \in Procs :
        (Done(p, "CreateUser") /\ loc[p].err # NilErr) => u[p] = arg[p]

\* p runs GetUserAttributes on a User with only well-formed ids, has returned,
\* and the fetch of at least one kind failed
FetchFailed(p) ==
    /\ Done(p, "GetUserAttributes")
    /\ AllValid(arg[p].Addresses) /\ AllValid(arg[p].Cards)
    /\ loc[p].addresses # "ok" \/ loc[p].cards # "ok"

\* the list new is part of the full records of the ids listed in old
PartOfResolved(coll, old, new) ==
    /\ Len(new) <= Len(old)
    /\ \A i, j \in 1 .. Len(new) : new[i].ID = new[j].ID => i = j
    /\ \A i \in 1 .. Len(new) :
           /\ \E j \in 1 .. Len(old) : old[j].ID = new[i].ID
           /\ ObjectIDFromHex(new[i].ID) \in DOMAIN coll
           /\ new[i] = AddID(ObjectIDFromHex(new[i].ID), coll[ObjectIDFromHex(new[i].ID)])

\* C20 as stated: when the fetch of one kind fails, GetUserAttributes returns
\* nil, the list of the failed kind holds its original placeholder entries
\* and the list of the other kind is resolved.
C20_FailedFetchKeepsPlaceholders ==
    \A p \in Procs :
        FetchFailed(p) =>
            /\ ret[p].err = NilErr
            /\ (loc[p].addresses # "ok" => u[p].Addresses = arg[p].Addresses)
            /\ (loc[p].addresses = "ok" => ResolvedFrom(db.addresses, arg[p].Addresses, u[p].Addresses))
            /\ (loc[p].cards # "ok" => u[p].Cards = arg[p].Cards)
            /\ (loc[p].cards = "ok" => ResolvedFrom(db.cards, arg[p].Cards, u[p].Cards))

\* C20: when a fetch fails, GetUserAttributes still returns nil and a kind
\* whose fetch succeeded is resolved; a kind whose Find failed keeps its
\* original placeholder entries, and a kind whose cursor could not be read to
\* the end is replaced by the records read before the failure, possibly none.
C20_FailedFetchDegrades ==
    \A p \in Procs :
        FetchFailed(p) =>
            /\ ret[p].err = NilErr
            /\ (loc[p].addresses = "find" => u[p].Addresses = arg[p].Addresses)
            /\ (loc[p].addresses = "all" => PartOfResolved(db.addresses, arg[p].Addresses, u[p].Addresses))
            /\ (loc[p].addresses = "ok" => ResolvedFrom(db.addresses, arg[p].Addresses, u[p].Addresses))
            /\ (loc[p].cards = "find" => u[p].Cards = arg[p].Cards)
            /\ (loc[p].cards = "all" => PartOfResolved(db.cards, arg[p].Cards, u[p].Cards))
            /\ (loc[p].cards = "ok" => ResolvedFrom(db.cards, arg[p].Cards, u[p].Cards))
            /\ db = pre[p].db

\* Find on addresses failed with two placeholders listed, the card resolved
C20_Witness ==
    \E p \in Procs :
        /\ FetchFailed(p)
        /\ loc[p].addresses = "find"
        /\ loc[p].cards = "ok"
        /\ Len(u[p].Addresses) = 2
        /\ u[p].Addresses = arg[p].Addresses
        /\ Len(u[p].Cards) = 1
        /\ u[p].Cards[1].val \in LongNums

\* C21: when no storage call fails and the storage calls of concurrently
\* issued handlers interleave, every id in every customer's reference lists
\* has a record once all handlers have returned.
C21_InterleavingLeavesNoDangling == (Quiescent /\ faultsLeft = 0 /\ ~createFailed /\ ~deleteFault) => ~Dangling

\* the cascading Delete of p has read the linked ids of its customer
Cascading(p) ==
    /\ op[p] = "Delete"
    /\ arg[p].entity = "customers"
    /\ pc[p] \in {"deleteAddresses", "deleteCards", "deleteEntity"}

\* C22: in every state reached through the handlers, in any order and
\* interleaving, with or without failed storage calls, every address id and
\* every card id is in the reference list of at most one customer document,
\* and at most once in it; so the ids a cascading Delete removes are
\* referenced by no other customer.
C22_ReferencesNotShared ==
    /\ \A attr \in {"addresses", "cards"} :
        /\ \A c, d \in DOMAIN db.customers :
               c # d => Range(db.customers[c][attr]) \cap Range(db.customers[d][attr]) = {}
        /\ \A c \in DOMAIN db.customers :
               \A x \in Range(db.customers[c][attr]) : Count(db.customers[c][attr], x) = 1
    /\ \A p \in Procs :
        Cascading(p) =>
            \A c \in DOMAIN db.customers \ {loc[p].oid} :
                /\ Range(db.customers[c].addresses) \cap loc[p].aids = {}
                /\ Range(db.customers[c].cards) \cap loc[p].cids = {}

\* a cascading Delete has returned nil while another customer, created by an
\* interleaved call, references an address and a card
C22_Witness ==
    \E p \in Procs :
        /\ Done(p, "Delete")
        /\ arg[p].entity = "customers"
        /\ ret[p].err = NilErr
        /\ loc[p].aids # {} /\ loc[p].cids # {}
        /\ \E c \in DOMAIN db.customers \ {loc[p].oid} :
               /\ db.customers[c].addresses # << >>
               /\ db.customers[c].cards # << >>
               /\ c \notin DOMAIN pre[p].db.customers
====
